---- MODULE Spec2Model ----
(***************************************************************************)
(* Model of the tool-calling orchestration loop of gemini_functions.py:    *)
(* chat_with_gemini, execute_function_call and the two camera-API handlers *)
(* get_cameras_by_zipcode / search_cameras_by_street.                      *)
(*                                                                         *)
(* Strings that the code searches (str(e), the error texts) are sequences  *)
(* of chunks; "x in s" is the presence of chunk x, s.lower() maps every    *)
(* chunk to its lower-case form.                                           *)
(***************************************************************************)
EXTENDS Integers, Sequences, FiniteSets, TLC

\* ------------------------------------------------------------------ bounds
\* Largest number of tool-invocation turns the environment (the LLM) is
\* explored to; the code itself has no such limit.
MaxTurns == 2
\* Largest number of camera records in a 2xx response of the camera API.
MaxCameras == 1

\* ------------------------------------------------------- tool registry
ZipcodeTool == "get_cameras_by_zipcode"
StreetTool == "search_cameras_by_street"
\* A name the model may emit that matches no declaration.
UndeclaredTool == "get_speed_limit"

ToolNames == {ZipcodeTool, StreetTool, UndeclaredTool}

\* available_functions: the names that resolve to a handler.
available_functions == {ZipcodeTool, StreetTool}

\* The keyword parameters of each handler (all required, no defaults).
HandlerParams(name) ==
    IF name = ZipcodeTool THEN {"zipcode"} ELSE {"street", "zipcode"}

\* ------------------------------------------------- tool-invocation args
\* A Python dict is a set of <<key, value>> pairs with distinct keys.
ArgPairs == {<<"zipcode", "10036">>, <<"street", "Broadway">>, <<"limit", "5">>}

ArgDicts == SUBSET ArgPairs

Keys(d) == {kv[1] : kv \in d}

Get(d, k) == (CHOOSE kv \in d : kv[1] = k)[2]

\* function_call.args is Optional[dict]: absent (None) or a dict.
FunctionArgs == [none : {TRUE}, kv : {{}}] \cup [none : {FALSE}, kv : ArgDicts]

\* ------------------------------------------------------ model responses
FunctionCallParts ==
    [kind : {"function_call"}, name : ToolNames, args : FunctionArgs]

TextParts == [kind : {"text"}, text : {"Here are the cameras.", "No cameras were found."}]

\* A second part / second candidate that also asks for a tool.
ExtraPart ==
    [kind |-> "function_call", name |-> StreetTool,
     args |-> [none |-> FALSE, kv |-> {<<"street", "Broadway">>, <<"zipcode", "10036">>}]]

ValidZipCall ==
    [kind |-> "function_call", name |-> ZipcodeTool,
     args |-> [none |-> FALSE, kv |-> {<<"zipcode", "10036">>}]]

\* A response is its candidates; a candidate is its content's parts.
SinglePartResponses == {<< <<p>> >> : p \in FunctionCallParts \cup TextParts}

MultiPartResponses ==
    {<< <<p, ExtraPart>> >> : p \in TextParts \cup {ValidZipCall}}
      \cup {<< <<p>>, <<ExtraPart>> >> : p \in TextParts}

\* No candidate at all (e.g. a blocked prompt), or a candidate without parts.
MalformedResponses == {<<>>, << <<>> >>}

WellFormedResponses == SinglePartResponses \cup MultiPartResponses

\* Variant: the first function call found in any part of the first candidate.
InspectedPart_AnyCall(r) ==
    IF \E j \in DOMAIN r[1] : r[1][j].kind = "function_call"
    THEN r[1][CHOOSE j \in DOMAIN r[1] :
                /\ r[1][j].kind = "function_call"
                /\ \A k \in 1..(j - 1) : r[1][k].kind # "function_call"]
    ELSE r[1][1]

\* Line 218: response.candidates[0].content.parts[0], the only part looked at.
InspectedPart(r) == r[1][1]

\* response.text: the text of the first candidate's text parts.
ResponseText(r) == r[1][1].text

\* ------------------------------------------------------------- strings
\* s.lower(), chunk by chunk.
LowerChunk(c) ==
    CASE c = "Quota" -> "quota"
      [] c = "Rate limit" -> "rate limit"
      [] c = "RESOURCE_EXHAUSTED" -> "resource_exhausted"
      [] c = "INVALID_ARGUMENT" -> "invalid_argument"
      [] c = "PERMISSION_DENIED" -> "permission_denied"
      [] c = "UNAVAILABLE" -> "unavailable"
      [] OTHER -> c

Lower(s) == [i \in DOMAIN s |-> LowerChunk(s[i])]

\* x in s
Contains(s, x) == \E i \in DOMAIN s : s[i] = x

\* ----------------------------------------------------------- exceptions
\* The status name the provider sends with an HTTP code.
StatusOf(code) ==
    CASE code = "429" -> "RESOURCE_EXHAUSTED"
      [] code = "400" -> "INVALID_ARGUMENT"
      [] code = "403" -> "PERMISSION_DENIED"
      [] OTHER -> "UNAVAILABLE"

\* errors.APIError.raise_for_response: 4xx is a ClientError, 5xx a ServerError.
ClassOf(code) == IF code \in {"429", "400", "403"} THEN "ClientError" ELSE "ServerError"

ProviderCodes == {"429", "400", "403", "503"}

\* The free text the provider puts in the error's message.
ProviderDetails ==
    { <<"The request could not be served.">>,
      <<"You exceeded your current ", "quota", ".">>,
      <<"Quota", " project is not set.">>,
      <<"The input token count (1", "429", "000) exceeds the maximum.">>,
      <<"rate limit", " configuration is invalid.">> }

\* str(e) of an APIError: "<code> <status>. <details>"
ApiError(code, details) ==
    [class |-> ClassOf(code), code |-> code,
     msg |-> <<code, " ", StatusOf(code), ". ">> \o details]

\* Failures of generate_content that are not API errors (transport).
TransportError ==
    [class |-> "ConnectError", code |-> "none", msg |-> <<"Connection refused">>]

ProviderErrors ==
    {ApiError(c, d) : c \in ProviderCodes, d \in ProviderDetails} \cup {TransportError}

\* The provider signalled quota / rate-limit exhaustion: HTTP 429.
SignalsRateLimit(e) == e.code = "429"

IndexError == [class |-> "IndexError", code |-> "none", msg |-> <<"list index out of range">>]

NoneArgsError ==
    [class |-> "TypeError", code |-> "none", msg |-> <<"'NoneType' object is not iterable">>]

\* handler(**args) with keys that are not exactly the handler's parameters.
BadArgsError(name) ==
    [class |-> "TypeError", code |-> "none",
     msg |-> <<name, "() got unexpected or missing keyword arguments">>]

\* ------------------------------------------------------------- outcomes
RateLimitMessage ==
    <<"Rate limit", " exceeded! You've hit the Gemini API ", "quota", ". Please wait.">>

\* The test of line 263 on str(e).
IsRateLimitText(error_msg) ==
    \/ Contains(error_msg, "429")
    \/ Contains(error_msg, "RESOURCE_EXHAUSTED")
    \/ Contains(Lower(error_msg), "quota")

\* Variant: the except clauses forget the invocations tracked so far.
HandleException_NoHistory(e, calls) ==
    IF e.class = "ClientError"
    THEN IF IsRateLimitText(e.msg)
         THEN [error |-> RateLimitMessage, error_details |-> e.msg,
               function_calls |-> <<>>]
         ELSE [error |-> <<"Gemini API Error: ">> \o e.msg, function_calls |-> <<>>]
    ELSE [error |-> <<"Unexpected error: ">> \o e.msg, function_calls |-> <<>>]

\* Variant: no catch-all clause, only ClientError is turned into a return.
HandleException_NoCatchAll(e, calls) ==
    IF e.class = "ClientError"
    THEN IF IsRateLimitText(e.msg)
         THEN [error |-> RateLimitMessage, error_details |-> e.msg,
               function_calls |-> calls]
         ELSE [error |-> <<"Gemini API Error: ">> \o e.msg, function_calls |-> calls]
    ELSE <<>>

\* The except clauses of chat_with_gemini: what is returned for exception e.
HandleException(e, calls) ==
    IF e.class = "ClientError"
    THEN IF IsRateLimitText(e.msg)
         THEN [error |-> RateLimitMessage, error_details |-> e.msg,
               function_calls |-> calls]
         ELSE [error |-> <<"Gemini API Error: ">> \o e.msg, function_calls |-> calls]
    ELSE [error |-> <<"Unexpected error: ">> \o e.msg, function_calls |-> calls]

\* The return of the plain-text branch.
FinalAnswer(text, calls) == [response |-> text, function_calls |-> calls]

\* Nothing returned yet.
NoOutcome == <<>>

\* ------------------------------------------------------------- handlers
\* What the camera API does with the one GET of a handler call.
HttpFailures ==
    { <<"Read timed out. (read timeout=10)">>,
      <<"404 Client Error: Not Found for url">>,
      <<"Connection aborted.">> }

\* Variant: the handler retries its GET once.
GetsAfter_Retry(gets) == gets + 2

\* Lines 41 / 73: the handler calls requests.get once, without retry.
GetsAfter(gets) == gets + 1

\* A 2xx body: a JSON array of camera records.
RECURSIVE CameraList(_)
CameraList(n) == IF n = 0 THEN <<>> ELSE Append(CameraList(n - 1), [id |-> n])

HttpBodies == {CameraList(n) : n \in 0..MaxCameras}

\* get_cameras_by_zipcode, success return.
ZipcodeSuccess(zipcode, cameras) ==
    [success |-> TRUE, zipcode |-> zipcode, count |-> Len(cameras), cameras |-> cameras]

\* get_cameras_by_zipcode, except RequestException.
ZipcodeFailure(zipcode, err) ==
    [success |-> FALSE, error |-> err, zipcode |-> zipcode]

\* search_cameras_by_street, success return.
StreetSuccess(street, zipcode, cameras) ==
    [success |-> TRUE, street |-> street, zipcode |-> zipcode,
     count |-> Len(cameras), cameras |-> cameras]

\* search_cameras_by_street, except RequestException.
StreetFailure(street, zipcode, err) ==
    [success |-> FALSE, error |-> err, street |-> street, zipcode |-> zipcode]

\* Variant: count is never filled in.
HandlerSuccess_NoCount(name, kv, cameras) ==
    IF name = ZipcodeTool
    THEN [success |-> TRUE, zipcode |-> Get(kv, "zipcode"), count |-> 0,
          cameras |-> cameras]
    ELSE [success |-> TRUE, street |-> Get(kv, "street"), zipcode |-> Get(kv, "zipcode"),
          count |-> 0, cameras |-> cameras]

\* The handler's return once its GET has answered with a 2xx body.
HandlerSuccess(name, kv, cameras) ==
    IF name = ZipcodeTool
    THEN ZipcodeSuccess(Get(kv, "zipcode"), cameras)
    ELSE StreetSuccess(Get(kv, "street"), Get(kv, "zipcode"), cameras)

\* Variant: the failure payload does not echo the inputs.
HandlerFailure_NoEcho(name, kv, err) == [success |-> FALSE, error |-> err]

\* The handler's return once its GET has raised a RequestException.
HandlerFailure(name, kv, err) ==
    IF name = ZipcodeTool
    THEN ZipcodeFailure(Get(kv, "zipcode"), err)
    ELSE StreetFailure(Get(kv, "street"), Get(kv, "zipcode"), err)

\* Variant: the failure payload does not name the tool.
NotFoundPayload_NoName(name) == [error |-> <<"Function not found">>]

\* execute_function_call for a name without handler.
NotFoundPayload(name) == [error |-> <<"Function ", name, " not found">>]

\* -------------------------------------------------------- conversation
UserTurn(text) == [role |-> "user", parts |-> <<[kind |-> "text", text |-> text]>>]

\* response.candidates[0].content
ModelTurn(content) == [role |-> "model", parts |-> content]

\* The Content of lines 235-245.
ResultTurn(name, result) ==
    [role |-> "user",
     parts |-> <<[kind |-> "function_response", name |-> name, response |-> result]>>]

\* Variant: the function response is not appended.
AppendTurns_NoResult(msgs, content, name, result) == Append(msgs, ModelTurn(content))

\* Lines 231-246: the model's turn, then the function response.
AppendTurns(msgs, content, name, result) ==
    Append(Append(msgs, ModelTurn(content)), ResultTurn(name, result))

\* Variant: the newest invocation is put first.
TrackCall_Prepend(calls, fc) == <<[name |-> fc.name, args |-> fc.args.kv]>> \o calls

\* Lines 222-225.
TrackCall(calls, fc) == Append(calls, [name |-> fc.name, args |-> fc.args.kv])

\* ---------------------------------------------------------------- state
VARIABLES
    pc,                   \* where chat_with_gemini stands
    messages,             \* the conversation sent to the model
    function_calls_made,  \* the tracked tool invocations
    function_call,        \* the invocation being executed
    content,              \* response.candidates[0].content of this turn
    outcome,              \* the returned dict, NoOutcome until the return
    modelCalls,           \* generate_content calls issued
    toolCalls,            \* execute_function_call calls made
    handlerCalls,         \* handler calls made by execute_function_call
    httpGets,             \* requests.get calls made
    requested,            \* the first-part invocations the model asked for
    raised,               \* the exceptions raised inside the try block
    event,                \* what the last step was
    response,             \* what the last generate_content call returned
    sent,                 \* the contents passed to the last generate_content call
    requests,             \* several chat_with_gemini calls, each with its locals
    history,              \* what the environment answered to each of them
    http                  \* the /chat handler of app.py

chatVars == <<pc, messages, function_calls_made, function_call, content, outcome,
              modelCalls, toolCalls, handlerCalls, httpGets, requested, raised, event,
              response, sent>>

\* The variables of the specifications with several calls or the front end.
frontVars == <<requests, history, http>>

vars == <<chatVars, frontVars>>

UserMessages == {"Show me all speed cameras in zipcode 10036"}

NoCall == [kind |-> "none"]

Terminal == {"Done", "Failed"}

\* Variant: the loop gives up after two tool-invocation turns.
LoopBack_Capped(calls) == IF Len(calls) >= 2 THEN "Failed" ELSE "AwaitingModel"

\* Variant: a single round of function calling, the loop ends after it.
LoopBack_SingleRound(calls) == "Done"

\* while True: after the function response is appended the loop calls the
\* model again, whatever the number of turns so far.
LoopBack(calls) == "AwaitingModel"

\* Variant: only the newest turn is passed to the model.
Contents_LastTurn(msgs) == <<msgs[Len(msgs)]>>

\* Line 210: contents=messages, the whole conversation.
Contents(msgs) == msgs

\* Lines 191-203.
ChatInit ==
    /\ pc = "AwaitingModel"
    /\ \E m \in UserMessages : messages = <<UserTurn(m)>>
    /\ function_calls_made = <<>>
    /\ function_call = NoCall
    /\ content = <<>>
    /\ outcome = NoOutcome
    /\ modelCalls = 0
    /\ toolCalls = 0
    /\ handlerCalls = 0
    /\ httpGets = 0
    /\ requested = <<>>
    /\ raised = <<>>
    /\ event = "start"
    /\ response = <<>>
    /\ sent = <<>>

\* One call of chat_with_gemini on its own.
Init ==
    /\ ChatInit
    /\ requests = <<>>
    /\ history = <<>>
    /\ http = <<>>

\* An exception e leaves the try block: the except clauses build the return.
Fail(e, ev) ==
    /\ outcome' = HandleException(e, function_calls_made)
    /\ raised' = Append(raised, e)
    /\ pc' = "Failed"
    /\ event' = ev

\* Lines 208-215 raise: the provider call fails.
ProviderFails ==
    /\ pc = "AwaitingModel"
    /\ \E e \in ProviderErrors : Fail(e, "provider_error")
    /\ modelCalls' = modelCalls + 1
    /\ sent' = Contents(messages)
    /\ response' = <<>>
    /\ UNCHANGED frontVars
    /\ UNCHANGED <<messages, function_calls_made, function_call, content,
                   toolCalls, handlerCalls, httpGets, requested>>

\* Line 218 on a response without candidate or without part.
ModelReturnsMalformed ==
    /\ pc = "AwaitingModel"
    /\ \E r \in MalformedResponses :
         /\ Fail(IndexError, "malformed_response")
         /\ response' = r
    /\ modelCalls' = modelCalls + 1
    /\ sent' = Contents(messages)
    /\ UNCHANGED frontVars
    /\ UNCHANGED <<messages, function_calls_made, function_call, content,
                   toolCalls, handlerCalls, httpGets, requested>>

\* Lines 218-225, the first part is a function call with an args dict.
ModelRequestsTool ==
    /\ pc = "AwaitingModel"
    /\ Len(function_calls_made) < MaxTurns
    /\ \E r \in WellFormedResponses :
         /\ InspectedPart(r).kind = "function_call"
         /\ ~InspectedPart(r).args.none
         /\ function_call' = InspectedPart(r)
         /\ content' = r[1]
         /\ function_calls_made' = TrackCall(function_calls_made, InspectedPart(r))
         /\ requested' = Append(requested, r[1][1])
         /\ response' = r
    /\ modelCalls' = modelCalls + 1
    /\ sent' = Contents(messages)
    /\ pc' = "ExecutingTool"
    /\ event' = "tool_requested"
    /\ UNCHANGED frontVars
    /\ UNCHANGED <<messages, outcome, toolCalls, handlerCalls, httpGets, raised>>

\* Lines 218-225, the first part is a function call whose args are None:
\* dict(None) raises before the call is tracked.
ModelRequestsToolWithoutArgs ==
    /\ pc = "AwaitingModel"
    /\ \E r \in WellFormedResponses :
         /\ InspectedPart(r).kind = "function_call"
         /\ InspectedPart(r).args.none
         /\ requested' = Append(requested, r[1][1])
         /\ response' = r
    /\ Fail(NoneArgsError, "track_raised")
    /\ modelCalls' = modelCalls + 1
    /\ sent' = Contents(messages)
    /\ UNCHANGED frontVars
    /\ UNCHANGED <<messages, function_calls_made, function_call, content,
                   toolCalls, handlerCalls, httpGets>>

\* Lines 247-257: the first part is no function call.
ModelReturnsText ==
    /\ pc = "AwaitingModel"
    /\ \E r \in WellFormedResponses :
         /\ InspectedPart(r).kind = "text"
         /\ outcome' = FinalAnswer(ResponseText(r), function_calls_made)
         /\ response' = r
    /\ modelCalls' = modelCalls + 1
    /\ sent' = Contents(messages)
    /\ pc' = "Done"
    /\ event' = "text"
    /\ UNCHANGED frontVars
    /\ UNCHANGED <<messages, function_calls_made, function_call, content,
                   toolCalls, handlerCalls, httpGets, requested, raised>>

\* Lines 161-164 and 231-246: no handler under that name.
ToolNotFound ==
    /\ pc = "ExecutingTool"
    /\ function_call.name \notin available_functions
    /\ messages' = AppendTurns(messages, content, function_call.name,
                               NotFoundPayload(function_call.name))
    /\ toolCalls' = toolCalls + 1
    /\ pc' = LoopBack(function_calls_made)
    /\ event' = "tool_result"
    /\ UNCHANGED frontVars
    /\ UNCHANGED <<response, sent>>
    /\ UNCHANGED <<function_calls_made, function_call, content, outcome,
                   modelCalls, handlerCalls, httpGets, requested, raised>>

\* Line 167 with keyword arguments the handler does not take: TypeError.
HandlerRejectsArgs ==
    /\ pc = "ExecutingTool"
    /\ function_call.name \in available_functions
    /\ Keys(function_call.args.kv) # HandlerParams(function_call.name)
    /\ Fail(BadArgsError(function_call.name), "tool_raised")
    /\ toolCalls' = toolCalls + 1
    /\ UNCHANGED frontVars
    /\ UNCHANGED <<response, sent>>
    /\ UNCHANGED <<messages, function_calls_made, function_call, content,
                   modelCalls, handlerCalls, httpGets, requested>>

\* Line 167: the handler is entered.
HandlerCalled ==
    /\ pc = "ExecutingTool"
    /\ function_call.name \in available_functions
    /\ Keys(function_call.args.kv) = HandlerParams(function_call.name)
    /\ toolCalls' = toolCalls + 1
    /\ handlerCalls' = handlerCalls + 1
    /\ pc' = "InHandler"
    /\ event' = "handler_called"
    /\ UNCHANGED frontVars
    /\ UNCHANGED <<response, sent>>
    /\ UNCHANGED <<messages, function_calls_made, function_call, content, outcome,
                   modelCalls, httpGets, requested, raised>>

\* The handler's GET answers 2xx with a JSON array; lines 231-246 follow.
HttpSucceeds ==
    /\ pc = "InHandler"
    /\ \E cameras \in HttpBodies :
         messages' = AppendTurns(messages, content, function_call.name,
                        HandlerSuccess(function_call.name, function_call.args.kv, cameras))
    /\ httpGets' = GetsAfter(httpGets)
    /\ pc' = LoopBack(function_calls_made)
    /\ event' = "tool_result"
    /\ UNCHANGED frontVars
    /\ UNCHANGED <<response, sent>>
    /\ UNCHANGED <<function_calls_made, function_call, content, outcome,
                   modelCalls, toolCalls, handlerCalls, requested, raised>>

\* The handler's GET raises a RequestException; lines 231-246 follow.
HttpFails ==
    /\ pc = "InHandler"
    /\ \E err \in HttpFailures :
         messages' = AppendTurns(messages, content, function_call.name,
                        HandlerFailure(function_call.name, function_call.args.kv, err))
    /\ httpGets' = GetsAfter(httpGets)
    /\ pc' = LoopBack(function_calls_made)
    /\ event' = "http_failed"
    /\ UNCHANGED frontVars
    /\ UNCHANGED <<response, sent>>
    /\ UNCHANGED <<function_calls_made, function_call, content, outcome,
                   modelCalls, toolCalls, handlerCalls, requested, raised>>

Next ==
    \/ ProviderFails
    \/ ModelReturnsMalformed
    \/ ModelRequestsTool
    \/ ModelRequestsToolWithoutArgs
    \/ ModelReturnsText
    \/ ToolNotFound
    \/ HandlerRejectsArgs
    \/ HandlerCalled
    \/ HttpSucceeds
    \/ HttpFails

Spec == Init /\ [][Next]_vars

\* =============================================================== claims
\* Helpers of the properties below.
Last(sq) == sq[Len(sq)]

HasRequest(turn) ==
    turn.role = "model" /\ \E j \in DOMAIN turn.parts : turn.parts[j].kind = "function_call"

IsResultTurn(turn) ==
    /\ turn.role = "user"
    /\ Len(turn.parts) = 1
    /\ turn.parts[1].kind = "function_response"

RequestTurns == {i \in DOMAIN messages : HasRequest(messages[i])}

ResultTurns == {i \in DOMAIN messages : IsResultTurn(messages[i])}

\* The invocations the model asked for, as name and arguments.
RequestedCalls ==
    [i \in DOMAIN requested |-> [name |-> requested[i].name, args |-> requested[i].args.kv]]

Returned == DOMAIN outcome # {}

\* C1: whenever a model call is about to be issued, every model turn of the
\* conversation that carries a tool-invocation request is immediately followed
\* by one tool-result turn bearing the name of the request the loop acted on,
\* and that result turn is not followed by a second one.
C1_RequestsAnswered ==
    pc = "AwaitingModel" =>
        \A i \in RequestTurns :
            /\ i + 1 \in ResultTurns
            /\ messages[i + 1].parts[1].name = messages[i].parts[1].name
            /\ (i + 2 \in DOMAIN messages => i + 2 \notin ResultTurns)

C1_Witness ==
    /\ pc = "AwaitingModel"
    /\ Cardinality(RequestTurns) = 2
    /\ messages[2].parts[1].name # messages[4].parts[1].name

\* C2 (as stated): the loop is over once the turn cap is reached, so it never
\* asks the model for a further turn after MaxTurns tool-invocation turns.
C2_TerminatesUnderTurnCap ==
    pc = "AwaitingModel" => Len(function_calls_made) < MaxTurns

\* C2 (amended): the loop ends exactly in the turn in which the model returns
\* plain text, the response is malformed, the provider fails or tracking or
\* executing the invocation raises; after every tool-invocation turn whose
\* execution returned a payload it asks the model again, however many turns
\* have gone by.
C2_EndsOnlyOnTextOrError ==
    /\ pc \in Terminal <=>
         event \in {"text", "provider_error", "malformed_response",
                    "track_raised", "tool_raised"}
    /\ event \in {"tool_result", "http_failed"} => pc = "AwaitingModel" /\ ~Returned

C2_Witness ==
    /\ pc = "AwaitingModel"
    /\ Len(function_calls_made) = MaxTurns
    /\ Len(messages) = 1 + 2 * MaxTurns

\* C3 (as stated): executing a tool invocation never moves the loop to Failed.
C3_ToolExecutionNeverFails == ~(pc = "Failed" /\ event = "tool_raised")

C5_RateLimitIffSignalled ==
    event = "provider_error" =>
        (outcome.error = RateLimitMessage <=> SignalsRateLimit(Last(raised)))

\* C6: when the n-th model call fails at the provider the loop is Failed, the
\* returned error carries exactly the n-1 invocations requested before, in
\* order, n-1 tool executions were made, a 429 on the first call gives the
\* rate-limit error with an empty list, and no step follows a return.
C6_ProviderFailureKeepsHistory ==
    /\ [](event = "provider_error" =>
            /\ pc = "Failed"
            /\ "error" \in DOMAIN outcome
            /\ outcome.function_calls = RequestedCalls
            /\ Len(outcome.function_calls) = modelCalls - 1
            /\ toolCalls = modelCalls - 1
            /\ (modelCalls = 1 /\ SignalsRateLimit(Last(raised)) =>
                  outcome.error = RateLimitMessage /\ outcome.function_calls = <<>>))
    /\ [][pc \notin Terminal]_vars

C6_Witness ==
    /\ event = "provider_error"
    /\ modelCalls = 3
    /\ Len(outcome.function_calls) = 2
    /\ outcome.function_calls[1] # outcome.function_calls[2]

\* C7: the loop has returned exactly when it is Done or Failed; what it
\* returns has function_calls and exactly one of response (Done) and error
\* (Failed); every exception raised inside the loop ended it in Failed with
\* an error outcome.
C7_ExactlyOneOutcome ==
    /\ Returned <=> pc \in Terminal
    /\ Returned =>
         /\ "function_calls" \in DOMAIN outcome
         /\ ("response" \in DOMAIN outcome) # ("error" \in DOMAIN outcome)
         /\ "response" \in DOMAIN outcome <=> pc = "Done"
    /\ raised # <<>> => pc = "Failed" /\ "error" \in DOMAIN outcome /\ Len(raised) = 1
    /\ pc = "Failed" => raised # <<>>

C7_Witness ==
    /\ pc = "Failed"
    /\ Last(raised).class = "TypeError"
    /\ event = "tool_raised"
    /\ Len(outcome.function_calls) = 2

\* C8: in Done the returned function_calls is the sequence of invocations the
\* model requested, name and arguments, in the order requested, one per
\* tool-invocation turn of the conversation.
C8_DoneListsRequestedCalls ==
    pc = "Done" =>
        /\ outcome.function_calls = RequestedCalls
        /\ Len(outcome.function_calls) = Cardinality(RequestTurns)
        /\ \A i \in DOMAIN outcome.function_calls :
               /\ outcome.function_calls[i].name = messages[2 * i].parts[1].name
               /\ outcome.function_calls[i].args = messages[2 * i].parts[1].args.kv

C8_Witness ==
    /\ pc = "Done"
    /\ Len(outcome.function_calls) = 2
    /\ outcome.function_calls[1].name = StreetTool
    /\ outcome.function_calls[2].name = ZipcodeTool

\* The payload of result turn i echoes the arguments of its request turn.
EchoesInputs(i) ==
    \A k \in HandlerParams(messages[i].parts[1].name) :
        /\ k \in DOMAIN messages[i].parts[1].response
        /\ messages[i].parts[1].response[k] = Get(messages[i - 1].parts[1].args.kv, k)

FailedResults ==
    {i \in ResultTurns : /\ "success" \in DOMAIN messages[i].parts[1].response
                         /\ ~messages[i].parts[1].response.success}

\* C9: when the camera API times out or fails, the payload fed back is
\* {success: false, error, echoed inputs} and nothing else, the loop raised
\* nothing and stands before its next model call with that payload as the
\* last turn; a plain-text reply to it ends the loop in Done with a final
\* answer, not an error.
C9_ApiFailureIsFedBack ==
    /\ [](/\ \A i \in FailedResults :
               /\ DOMAIN messages[i].parts[1].response =
                     {"success", "error"} \cup HandlerParams(messages[i].parts[1].name)
               /\ messages[i].parts[1].response.error \in HttpFailures
               /\ EchoesInputs(i)
          /\ event = "http_failed" =>
               /\ pc = "AwaitingModel"
               /\ ~Returned
               /\ raised = <<>>
               /\ Len(messages) \in FailedResults)
    /\ [][(event = "http_failed" /\ event' = "text") =>
            /\ pc' = "Done"
            /\ DOMAIN outcome' = {"response", "function_calls"}
            /\ messages' = messages]_vars

C9_Witness ==
    /\ pc = "Done"
    /\ Len(messages) = 3
    /\ 3 \in FailedResults
    /\ messages[3].parts[1].name = StreetTool
    /\ messages[3].parts[1].response.error = <<"Read timed out. (read timeout=10)">>

\* The tool-invocation turns of the conversation whose tool has a handler.
RegisteredRequestTurns ==
    {i \in RequestTurns : messages[i].parts[1].name \in available_functions}

\* C10 (as stated): once the loop has returned, the number of GETs sent to the
\* camera API equals the number of tool-invocation turns.
C10_OneGetPerToolTurn ==
    pc \in Terminal => httpGets = Cardinality(RequestTurns)

\* C10 (amended): every handler call issues exactly one GET, an invocation
\* whose name has no handler or whose arguments the handler rejects issues
\* none; the number of GETs equals the number of tool-invocation turns whose
\* tool has a handler and never exceeds the number of tool executions.
C10_OneGetPerHandlerCall ==
    /\ httpGets = Cardinality(RegisteredRequestTurns)
    /\ handlerCalls = IF pc = "InHandler" THEN httpGets + 1 ELSE httpGets
    /\ httpGets <= toolCalls
    /\ toolCalls - handlerCalls =
         Cardinality({i \in DOMAIN requested :
                        /\ i <= toolCalls
                        /\ \/ requested[i].name \notin available_functions
                           \/ Keys(requested[i].args.kv) # HandlerParams(requested[i].name)})

C10_Witness ==
    /\ pc = "Done"
    /\ httpGets = 1
    /\ toolCalls = 2
    /\ 5 \in FailedResults

\* The result turns whose payload a handler built.
HandlerResults ==
    {i \in ResultTurns : messages[i].parts[1].name \in available_functions}

\* C13: every payload a handler returned either has success = TRUE, count
\* equal to the length of cameras and the echoed inputs and nothing else, or
\* has success = FALSE, an error text and the echoed inputs, and no cameras.
C13_PayloadShape ==
    \A i \in HandlerResults :
        LET res == messages[i].parts[1].response
            params == HandlerParams(messages[i].parts[1].name)
        IN /\ "success" \in DOMAIN res
           /\ EchoesInputs(i)
           /\ IF res.success
              THEN /\ DOMAIN res = {"success", "count", "cameras"} \cup params
                   /\ res.cameras \in HttpBodies
                   /\ res.count = Len(res.cameras)
              ELSE /\ DOMAIN res = {"success", "error"} \cup params
                   /\ res.error \in HttpFailures

C13_Witness ==
    /\ Len(messages) = 5
    /\ HandlerResults = {3, 5}
    /\ messages[3].parts[1].name = StreetTool
    /\ messages[3].parts[1].response.success
    /\ messages[3].parts[1].response.count = MaxCameras
    /\ ~messages[5].parts[1].response.success

C15_RunsUntilText ==
    /\ event \in {"tool_result", "http_failed"} =>
         /\ pc = "AwaitingModel"
         /\ modelCalls = Len(function_calls_made)
         /\ toolCalls = Len(function_calls_made)
    /\ pc = "Done" =>
         /\ modelCalls = Len(function_calls_made) + 1
         /\ toolCalls = Len(function_calls_made)
         /\ Cardinality(ResultTurns) = Len(function_calls_made)
         /\ response[1][1].kind = "text"
         /\ outcome.response = response[1][1].text
         /\ Len(outcome.function_calls) = Len(function_calls_made)

C15_Witness ==
    /\ pc = "Done"
    /\ modelCalls = MaxTurns + 1
    /\ toolCalls = MaxTurns
    /\ outcome.response = "No cameras were found."

\* C16: the conversation only grows at its end and starts with the user's
\* text; before each model call it is that turn followed by n pairs of a model
\* request turn and a user-role result turn, n being the length of
\* function_calls_made and the number of model calls completed; each call was
\* passed the whole conversation as it stood.
C16_ConversationShape ==
    /\ [][/\ Len(messages') >= Len(messages)
          /\ SubSeq(messages', 1, Len(messages)) = messages]_vars
    /\ [](/\ \E m \in UserMessages : messages[1] = UserTurn(m)
          /\ pc = "AwaitingModel" =>
               /\ Len(function_calls_made) = modelCalls
               /\ Len(messages) = 1 + 2 * modelCalls
               /\ \A i \in 1..modelCalls :
                    /\ HasRequest(messages[2 * i])
                    /\ messages[2 * i].parts[1].kind = "function_call"
                    /\ IsResultTurn(messages[2 * i + 1])
          /\ modelCalls > 0 =>
               /\ Len(sent) = 1 + 2 * (modelCalls - 1)
               /\ sent = SubSeq(messages, 1, Len(sent)))

C16_Witness ==
    /\ pc = "ExecutingTool"
    /\ modelCalls = 2
    /\ Len(sent) = 3
    /\ sent = messages

\* C17 (as stated): in every returned outcome the length of function_calls
\* equals the number of tool-result turns of the conversation.
C17_CallsMatchResultTurns ==
    Returned => Len(outcome.function_calls) = Cardinality(ResultTurns)

\* ========================================= chat_with_gemini, call by call
\* The same function written over a record of its locals, so that several
\* calls can stand side by side.  printed is what the call wrote to stdout.

\* if verbose: print(...)
Trace(verbose, lines) == IF verbose THEN lines ELSE <<>>

\* Variant: "return result" sits inside the last "if verbose:" block, so a
\* silent call falls off the end and returns None.
ReturnedResult_InsideVerbose(verbose, result) ==
    IF verbose THEN result ELSE [returned |-> "None"]

\* Lines 169-174: the result is returned whether or not it was printed.
ReturnedResult(verbose, result) == result

\* Variant: the conversation is a module-level list that other calls fill too.
NewConversation_Shared(m, others) == Append(others, UserTurn(m))

\* Lines 198-203: a new list holding the user's turn; others is what the
\* calls running beside this one hold.
NewConversation(m, others) == <<UserTurn(m)>>

\* Lines 191-203.
CallStart(m, verbose, others) ==
    [pc |-> "AwaitingModel",
     messages |-> NewConversation(m, others),
     function_calls_made |-> <<>>,
     function_call |-> NoCall,
     content |-> <<>>,
     outcome |-> NoOutcome,
     modelCalls |-> 0,
     toolCalls |-> 0,
     httpGets |-> 0,
     printed |-> Trace(verbose, <<"USER">>)]

\* Lines 259-300.
CallFail(st, e, verbose) ==
    [st EXCEPT !.pc = "Failed",
               !.outcome = HandleException(e, st.function_calls_made),
               !.printed = @ \o Trace(verbose, <<"ERROR">>)]

\* Lines 208-257 once generate_content has returned r.
CallOnResponse(st, r, verbose) ==
    IF r \in MalformedResponses
    THEN CallFail(st, IndexError, verbose)
    ELSE IF InspectedPart(r).kind = "function_call"
         THEN IF InspectedPart(r).args.none
              THEN CallFail(st, NoneArgsError, verbose)
              ELSE [st EXCEPT !.function_calls_made = TrackCall(@, InspectedPart(r)),
                              !.function_call = InspectedPart(r),
                              !.content = r[1],
                              !.pc = "ExecutingTool"]
         ELSE [st EXCEPT !.pc = "Done",
                         !.outcome = FinalAnswer(ResponseText(r), st.function_calls_made),
                         !.printed = @ \o Trace(verbose, <<"GEMINI">>)]

\* Lines 149-167 up to the handler's GET, and lines 231-246 for a name
\* without handler.
CallOnExecute(st, verbose) ==
    LET name == st.function_call.name
        s1 == [st EXCEPT !.toolCalls = @ + 1,
                         !.printed = @ \o Trace(verbose, <<"FUNCTION CALL DETECTED">>)]
    IN IF name \notin available_functions
       THEN [s1 EXCEPT !.messages = AppendTurns(@, st.content, name, NotFoundPayload(name)),
                       !.pc = LoopBack(st.function_calls_made)]
       ELSE IF Keys(st.function_call.args.kv) # HandlerParams(name)
            THEN CallFail(s1, BadArgsError(name), verbose)
            ELSE [s1 EXCEPT !.pc = "InHandler"]

\* The handler's GET has answered: lines 44-56, 169-174 and 231-246.
CallOnHttp(st, inp, verbose) ==
    LET name == st.function_call.name
        kv == st.function_call.args.kv
        result == IF inp.type = "http_ok"
                  THEN HandlerSuccess(name, kv, inp.cameras)
                  ELSE HandlerFailure(name, kv, inp.err)
    IN [st EXCEPT !.httpGets = GetsAfter(@),
                  !.printed = @ \o Trace(verbose, <<"API RESPONSE">>),
                  !.messages = AppendTurns(@, st.content, name,
                                           ReturnedResult(verbose, result)),
                  !.pc = LoopBack(st.function_calls_made)]

\* One step of a call on what the environment answered; an answer the call
\* is not waiting for leaves it as it is.
CallStep(st, inp, verbose) ==
    IF st.pc = "AwaitingModel" /\ inp.type = "provider_error"
    THEN CallFail([st EXCEPT !.modelCalls = @ + 1], inp.e, verbose)
    ELSE IF st.pc = "AwaitingModel" /\ inp.type = "response"
    THEN CallOnResponse([st EXCEPT !.modelCalls = @ + 1], inp.r, verbose)
    ELSE IF st.pc = "ExecutingTool" /\ inp.type = "execute"
    THEN CallOnExecute(st, verbose)
    ELSE IF st.pc = "InHandler" /\ inp.type \in {"http_ok", "http_fail"}
    THEN CallOnHttp(st, inp, verbose)
    ELSE st

\* The responses the model may give when turns tool turns are explored.
ResponsesAt(st, turns) ==
    {r \in MalformedResponses \cup WellFormedResponses :
        \/ r \in MalformedResponses
        \/ r[1][1].kind = "text"
        \/ r[1][1].args.none
        \/ Len(st.function_calls_made) < turns}

\* What the environment may answer to a call in state st.
AnswersAt(st, turns) ==
    IF st.pc = "AwaitingModel"
    THEN {[type |-> "provider_error", e |-> e] : e \in ProviderErrors}
           \cup {[type |-> "response", r |-> r] : r \in ResponsesAt(st, turns)}
    ELSE IF st.pc = "ExecutingTool"
    THEN {[type |-> "execute"]}
    ELSE IF st.pc = "InHandler"
    THEN {[type |-> "http_ok", cameras |-> c] : c \in HttpBodies}
           \cup {[type |-> "http_fail", err |-> err] : err \in HttpFailures}
    ELSE {}

\* What a caller can see of a call: everything but its prints.
Observable(st) ==
    [pc |-> st.pc, messages |-> st.messages,
     function_calls_made |-> st.function_calls_made, outcome |-> st.outcome,
     modelCalls |-> st.modelCalls, toolCalls |-> st.toolCalls, httpGets |-> st.httpGets]

\* The record form does what the actions of Spec do: every step of Spec is
\* the step of a silent call on one of the answers open to it.
AsCall ==
    [pc |-> pc, messages |-> messages, function_calls_made |-> function_calls_made,
     function_call |-> function_call, content |-> content, outcome |-> outcome,
     modelCalls |-> modelCalls, toolCalls |-> toolCalls, httpGets |-> httpGets,
     printed |-> <<>>]

StepsAgree ==
    [][\E inp \in AnswersAt(AsCall, MaxTurns) : CallStep(AsCall, inp, FALSE) = AsCall']_vars

\* ================================================== verbose and silent
\* Two calls on the same user message, call 1 with verbose=True and call 2
\* with verbose=False, that are given the same answers one by one.
Verbosity(i) == i = 1

VerboseInit ==
    /\ ChatInit
    /\ \E m \in UserMessages :
         requests = [i \in {1, 2} |-> CallStart(m, Verbosity(i), <<>>)]
    /\ history = <<>>
    /\ http = <<>>

\* Both calls are handed the answer inp.
BothStep(inp) ==
    /\ requests' = [i \in {1, 2} |-> CallStep(requests[i], inp, Verbosity(i))]
    /\ history' = Append(history, inp)
    /\ UNCHANGED <<chatVars, http>>

\* generate_content raises.
VerboseProviderFails ==
    \E inp \in AnswersAt(requests[1], MaxTurns) :
        inp.type = "provider_error" /\ BothStep(inp)

\* generate_content returns.
VerboseModelAnswers ==
    \E inp \in AnswersAt(requests[1], MaxTurns) :
        inp.type = "response" /\ BothStep(inp)

\* execute_function_call runs up to the handler's GET.
VerboseExecutes ==
    \E inp \in AnswersAt(requests[1], MaxTurns) :
        inp.type = "execute" /\ BothStep(inp)

\* The camera API answers the GET.
VerboseCameraApiAnswers ==
    \E inp \in AnswersAt(requests[1], MaxTurns) :
        inp.type \in {"http_ok", "http_fail"} /\ BothStep(inp)

VerboseNext ==
    \/ VerboseProviderFails
    \/ VerboseModelAnswers
    \/ VerboseExecutes
    \/ VerboseCameraApiAnswers

VerboseSpec == VerboseInit /\ [][VerboseNext]_vars

\* C11: given the same user message and the same answers of the model and of
\* the camera API, the verbose and the silent call stand at the same place
\* after the same numbers of model calls, tool calls and GETs, hold the same
\* conversation and tracked invocations and return the same outcome; the
\* silent call prints nothing.
C11_VerboseIsObservational ==
    /\ Observable(requests[1]) = Observable(requests[2])
    /\ requests[2].printed = <<>>

C11_Witness ==
    /\ requests[1].pc = "Done"
    /\ requests[2].pc = "Done"
    /\ requests[1].toolCalls = 2
    /\ requests[1].httpGets = 1
    /\ Len(requests[1].printed) = 5
    /\ requests[2].printed = <<>>

\* =================================================== interleaved calls
\* Two /chat requests served side by side (app.py line 33: verbose=False),
\* each by its own call of chat_with_gemini; their steps interleave freely
\* and one may start after the other has returned.
ReqIds == {1, 2}

\* The user message of each request.
UserMessageOf(i) ==
    IF i = 1 THEN "Show me all speed cameras in zipcode 10036"
             ELSE "Are there any cameras on Broadway in zipcode 10001?"

NotStarted == [pc |-> "NotStarted"]

Started(i) == requests[i].pc # "NotStarted"

\* The conversation the other call holds at this moment.
OtherMessages(i) ==
    LET j == CHOOSE k \in ReqIds : k # i
    IN IF Started(j) THEN requests[j].messages ELSE <<>>

\* The answers explored for interleaved calls: one of each kind.
ConcTurns == MaxTurns - 1

ConcResponses ==
    { <<>>,
      << <<[kind |-> "text", text |-> "Here are the cameras."]>> >>,
      << <<ValidZipCall>> >>,
      << <<[kind |-> "function_call", name |-> ZipcodeTool,
            args |-> [none |-> FALSE, kv |-> {}]]>> >>,
      << <<[kind |-> "function_call", name |-> UndeclaredTool,
            args |-> [none |-> FALSE, kv |-> {}]]>> >> }

ConcErrors ==
    {ApiError(c, <<"The request could not be served.">>) : c \in {"429", "503"}}

ConcAnswersAt(st) ==
    {inp \in AnswersAt(st, ConcTurns) :
        /\ inp.type = "provider_error" => inp.e \in ConcErrors
        /\ inp.type = "response" => inp.r \in ConcResponses}

ConcInit ==
    /\ ChatInit
    /\ requests = [i \in ReqIds |-> NotStarted]
    /\ history = [i \in ReqIds |-> <<>>]
    /\ http = <<>>

\* app.py line 33: a request enters chat_with_gemini.
ConcStart(i) ==
    /\ ~Started(i)
    /\ requests' = [requests EXCEPT
                      ![i] = CallStart(UserMessageOf(i), FALSE, OtherMessages(i))]
    /\ UNCHANGED <<chatVars, history, http>>

\* Call i takes the answer inp.
ConcStep(i, inp) ==
    /\ requests' = [requests EXCEPT ![i] = CallStep(@, inp, FALSE)]
    /\ history' = [history EXCEPT ![i] = Append(@, inp)]
    /\ UNCHANGED <<chatVars, http>>

ConcProviderFails(i) ==
    /\ Started(i)
    /\ \E inp \in ConcAnswersAt(requests[i]) :
         inp.type = "provider_error" /\ ConcStep(i, inp)

ConcModelAnswers(i) ==
    /\ Started(i)
    /\ \E inp \in ConcAnswersAt(requests[i]) :
         inp.type = "response" /\ ConcStep(i, inp)

ConcExecutes(i) ==
    /\ Started(i)
    /\ \E inp \in ConcAnswersAt(requests[i]) :
         inp.type = "execute" /\ ConcStep(i, inp)

ConcCameraApiAnswers(i) ==
    /\ Started(i)
    /\ \E inp \in ConcAnswersAt(requests[i]) :
         inp.type \in {"http_ok", "http_fail"} /\ ConcStep(i, inp)

ConcNext ==
    \E i \in ReqIds :
        \/ ConcStart(i)
        \/ ConcProviderFails(i)
        \/ ConcModelAnswers(i)
        \/ ConcExecutes(i)
        \/ ConcCameraApiAnswers(i)

ConcSpec == ConcInit /\ [][ConcNext]_vars

\* The call on message m that is given the answers inputs with no other call
\* around.
RECURSIVE Alone(_, _)
Alone(m, inputs) ==
    IF inputs = <<>>
    THEN CallStart(m, FALSE, <<>>)
    ELSE CallStep(Alone(m, SubSeq(inputs, 1, Len(inputs) - 1)),
                  inputs[Len(inputs)], FALSE)

\* C12: a call starts from a conversation holding only its own user turn and
\* an empty function_calls list, whatever the other call holds by then; a
\* step of one call leaves the other call's locals as they were; and at any
\* moment a call stands exactly where it would stand had it been given the
\* same answers with no other call around, outcome included.
C12_RequestsAreIsolated ==
    /\ [][\A i \in ReqIds :
            /\ (~Started(i) /\ Started(i)') =>
                  /\ requests'[i].messages = <<UserTurn(UserMessageOf(i))>>
                  /\ requests'[i].function_calls_made = <<>>
            /\ requests'[i] # requests[i] =>
                  \A j \in ReqIds \ {i} : requests'[j] = requests[j]]_vars
    /\ [](\A i \in ReqIds :
            Started(i) =>
               /\ requests[i].messages[1] = UserTurn(UserMessageOf(i))
               /\ requests[i] = Alone(UserMessageOf(i), history[i]))

C12_Witness ==
    /\ requests[1].pc = "Done"
    /\ requests[2].pc = "Done"
    /\ Len(requests[1].outcome.function_calls) = 1
    /\ requests[1].outcome.function_calls[1].name = ZipcodeTool
    /\ Len(requests[2].outcome.function_calls) = 1
    /\ requests[2].outcome.function_calls[1].name = UndeclaredTool
    /\ Len(requests[1].messages) = 3
    /\ Len(requests[2].messages) = 3

\* ======================================================= the /chat handler
\* app.py, chat(): one POST /chat from its body to its status code.

\* request.json: no JSON object, an object without "message", an object
\* whose message is text, or one whose message is no text.
ChatBodies ==
    {[kind |-> "not_an_object", message |-> <<>>],
     [kind |-> "no_message", message |-> <<>>],
     [kind |-> "not_text", message |-> <<"42">>]}
      \cup [kind : {"text"},
            message : { <<>>, <<" ", " ">>,
                        <<" ", "Show me all speed cameras in zipcode 10036", " ">> }]

\* str.strip(): leading and trailing blanks go.
RECURSIVE Strip(_)
Strip(t) ==
    IF t = <<>> THEN <<>>
    ELSE IF t[1] = " " THEN Strip(SubSeq(t, 2, Len(t)))
    ELSE IF t[Len(t)] = " " THEN Strip(SubSeq(t, 1, Len(t) - 1))
    ELSE t

\* Line 27: data.get('message', '').strip() raises when data is no dict or
\* the message no string.
BodyRaises(body) == body.kind \in {"not_an_object", "not_text"}

\* Lines 36-39: the status sent with the result of chat_with_gemini.
StatusFor(result) ==
    IF "error" \in DOMAIN result
    THEN IF Contains(Lower(result.error), "rate limit") THEN 429 ELSE 500
    ELSE 200

AppInit ==
    /\ ChatInit
    /\ requests = <<>>
    /\ history = <<>>
    /\ \E b \in ChatBodies :
         http = [phase |-> "received", body |-> b, status |-> 0, chatCalls |-> 0]

Respond(status) ==
    http' = [http EXCEPT !.phase = "responded", !.status = status]

\* Lines 26-27 raise; lines 41-43 answer 500.
ChatBodyRaises ==
    /\ http.phase = "received"
    /\ BodyRaises(http.body)
    /\ Respond(500)
    /\ UNCHANGED <<chatVars, requests, history>>

\* Lines 29-30.
ChatRejectsEmpty ==
    /\ http.phase = "received"
    /\ ~BodyRaises(http.body)
    /\ Strip(http.body.message) = <<>>
    /\ Respond(400)
    /\ UNCHANGED <<chatVars, requests, history>>

\* Line 33: chat_with_gemini(user_message, verbose=False) is entered.
ChatCallsGemini ==
    /\ http.phase = "received"
    /\ ~BodyRaises(http.body)
    /\ Strip(http.body.message) # <<>>
    /\ http' = [http EXCEPT !.phase = "in_chat", !.chatCalls = @ + 1]
    /\ requests' = <<CallStart(Strip(http.body.message), FALSE, <<>>)>>
    /\ UNCHANGED <<chatVars, history>>

\* The call takes the answer inp.
AppStep(inp) ==
    /\ requests' = <<CallStep(requests[1], inp, FALSE)>>
    /\ UNCHANGED <<chatVars, history, http>>

AppProviderFails ==
    /\ http.phase = "in_chat"
    /\ \E inp \in AnswersAt(requests[1], MaxTurns) :
         inp.type = "provider_error" /\ AppStep(inp)

AppModelAnswers ==
    /\ http.phase = "in_chat"
    /\ \E inp \in AnswersAt(requests[1], MaxTurns) :
         inp.type = "response" /\ AppStep(inp)

AppExecutes ==
    /\ http.phase = "in_chat"
    /\ \E inp \in AnswersAt(requests[1], MaxTurns) :
         inp.type = "execute" /\ AppStep(inp)

AppCameraApiAnswers ==
    /\ http.phase = "in_chat"
    /\ \E inp \in AnswersAt(requests[1], MaxTurns) :
         inp.type \in {"http_ok", "http_fail"} /\ AppStep(inp)

\* Lines 35-39: chat_with_gemini has returned.
ChatResponds ==
    /\ http.phase = "in_chat"
    /\ requests[1].pc \in Terminal
    /\ Respond(StatusFor(requests[1].outcome))
    /\ UNCHANGED <<chatVars, requests, history>>

AppNext ==
    \/ ChatBodyRaises
    \/ ChatRejectsEmpty
    \/ ChatCallsGemini
    \/ AppProviderFails
    \/ AppModelAnswers
    \/ AppExecutes
    \/ AppCameraApiAnswers
    \/ ChatResponds

AppSpec == AppInit /\ [][AppNext]_vars

\* C18 (as stated): chat_with_gemini is entered at most once; an empty
\* message is answered 400 without entering it; once it has returned the
\* status is 429 exactly when the outcome is the rate-limit error, 500 for
\* any other error outcome and 200 for a final answer.
C18_StatusFollowsOutcome ==
    /\ http.chatCalls <= 1
    /\ (http.phase = "responded" /\ ~BodyRaises(http.body)
          /\ Strip(http.body.message) = <<>>) =>
         http.status = 400 /\ http.chatCalls = 0
    /\ (http.phase = "responded" /\ http.chatCalls = 1) =>
         http.status =
            IF "error" \notin DOMAIN requests[1].outcome THEN 200
            ELSE IF requests[1].outcome.error = RateLimitMessage THEN 429
            ELSE 500

====
